---- MODULE Spec2Model ----
(***************************************************************************)
(* Navigation and validation state machine of the installer wizard         *)
(* (src/ui/webui/src/components/AnacondaWizard.jsx).                        *)
(*                                                                         *)
(* The React state of AnacondaWizard and Footer, the wizard's active step, *)
(* the cockpit location and the storage calls in flight are the variables. *)
(* Every event handler is one action: the setState calls of one handler    *)
(* are applied in program order to a record of the state (the last write   *)
(* wins, as React batches them) and the record is committed at the end.    *)
(***************************************************************************)
EXTENDS Integers, Sequences, FiniteSets, Bags, TLC

VARIABLES
    isBootIso,               \* prop of AnacondaWizard, fixed for a session
    isFormValid,             \* useState, line 52
    stepNotification,        \* useState, line 53
    isInProgress,            \* useState, line 54
    isInstallationProgress,  \* useState, line 55
    storageScenarioId,       \* useState, line 57
    sessionStorage,          \* window.sessionStorage item "storage-scenario-id"
    nextWaitsConfirmation,   \* Footer useState, line 282
    quitWaitsConfirmation,   \* Footer useState, line 283
    activeStep,              \* id of the wizard's active step (useWizardContext)
    path,                    \* first segment of cockpit.location ("" when empty)
    pending,                 \* bag of applyStorage / resetPartitioning calls not yet completed
    exitCount,               \* number of exitGui() calls made
    calls,                   \* external calls made by the last handler
    event,                   \* the last handler that ran: [op, step, ex]
    fnPc,                    \* function harness: "off", "build", "flattened" or "jumped"
    fnSteps,                 \* function harness: the step tree given to getFlattenedStepsIds
    fnStepIds,               \* function harness: the sequence getFlattenedStepsIds returned
    fnJump                   \* function harness: [target, current, result] of canJumpToStep

wizardVars == << isBootIso, isFormValid, stepNotification, isInProgress,
                 isInstallationProgress, storageScenarioId, sessionStorage,
                 nextWaitsConfirmation, quitWaitsConfirmation, activeStep, path,
                 pending, exitCount, calls, event >>

fnVars == << fnPc, fnSteps, fnStepIds, fnJump >>

vars == << wizardVars, fnVars >>

\* Most storage calls that may be outstanding together in the model.
MaxPending == 2

Null == "<null>"
NoEx == "<none>"

\* Scenario ids the scenario selector can store; errors a storage call can report.
ScenarioIds == {"erase-all", "mount-point-mapping"}
Errors == {"e1", "e2"}

\* getDefaultScenario().id
DefaultScenarioId == "erase-all"

\* useState() with no argument, and setStepNotification() with no argument.
Undefined == [step |-> Null, ex |-> NoEx]

\* No canJumpToStep call made yet by the function harness.
NoJump == [target |-> Null, current |-> Null, result |-> FALSE]

-----------------------------------------------------------------------------
(* Step tree, flattening and the navigation guard                          *)

Leaf(id, label) == [id |-> id, label |-> label, hasSteps |-> FALSE, steps |-> << >>]

\* stepsOrder with disk-encryption shown for every scenario.
stepsOrder_EncryptionAlways(bootIso, scenarioId) ==
    (IF bootIso THEN << Leaf("installation-language", "Welcome") >> ELSE << >>)
    \o << Leaf("installation-method", "Installation method"),
          [id |-> "disk-configuration", label |-> "Disk configuration", hasSteps |-> TRUE,
           steps |-> << [id |-> "mount-point-mapping", label |-> "Manual disk configuration",
                         hasSteps |-> FALSE, steps |-> << >>,
                         isHidden |-> scenarioId # "mount-point-mapping"],
                        [id |-> "disk-encryption", label |-> "Disk encryption",
                         hasSteps |-> FALSE, steps |-> << >>,
                         isHidden |-> FALSE] >>],
          Leaf("installation-review", "Review and install") >>

\* const stepsOrder = [...]
stepsOrder(bootIso, scenarioId) ==
    (IF bootIso THEN << Leaf("installation-language", "Welcome") >> ELSE << >>)
    \o << Leaf("installation-method", "Installation method"),
          [id |-> "disk-configuration", label |-> "Disk configuration", hasSteps |-> TRUE,
           steps |-> << [id |-> "mount-point-mapping", label |-> "Manual disk configuration",
                         hasSteps |-> FALSE, steps |-> << >>,
                         isHidden |-> scenarioId # "mount-point-mapping"],
                        [id |-> "disk-encryption", label |-> "Disk encryption",
                         hasSteps |-> FALSE, steps |-> << >>,
                         isHidden |-> scenarioId = "mount-point-mapping"] >>],
          Leaf("installation-review", "Review and install") >>

\* The inner loop of getFlattenedStepsIds without the isHidden test.
RECURSIVE visibleChildIds_All(_)
visibleChildIds_All(children) ==
    IF children = << >> THEN << >>
    ELSE << Head(children).id >> \o visibleChildIds_All(Tail(children))

RECURSIVE visibleChildIds(_)
visibleChildIds(children) ==
    IF children = << >> THEN << >>
    ELSE (IF Head(children).isHidden # TRUE THEN << Head(children).id >> ELSE << >>)
         \o visibleChildIds(Tail(children))

RECURSIVE getFlattenedStepsIds(_)
getFlattenedStepsIds(steps) ==
    IF steps = << >> THEN << >>
    ELSE (IF Head(steps).hasSteps
          THEN visibleChildIds(Head(steps).steps)
          ELSE << Head(steps).id >>)
         \o getFlattenedStepsIds(Tail(steps))

flattenedStepsIds(bootIso, scenarioId) == getFlattenedStepsIds(stepsOrder(bootIso, scenarioId))

\* Array.prototype.findIndex(s => s === id): 0-based, -1 when absent.
findIndex(seq, id) ==
    IF \E i \in 1..Len(seq) : seq[i] = id
    THEN (CHOOSE i \in 1..Len(seq) : seq[i] = id /\ \A j \in 1..(i - 1) : seq[j] # id) - 1
    ELSE -1

\* const currentStepId = isBootIso ? path[0] || "installation-language" : path[0] || "installation-method"
currentStepId(bootIso, p) ==
    IF p # "" THEN p
    ELSE IF bootIso THEN "installation-language" ELSE "installation-method"

\* canJumpToStep with the comparison turned round.
canJumpToStep_Forward(flat, stepId, curStepId) ==
    findIndex(flat, stepId) >= findIndex(flat, curStepId)

\* canJumpToStep that lets every target through when the current step is not
\* in the sequence.
canJumpToStep_AbsentCurrent(flat, stepId, curStepId) ==
    findIndex(flat, curStepId) = -1 \/ findIndex(flat, stepId) <= findIndex(flat, curStepId)

canJumpToStep(flat, stepId, curStepId) ==
    findIndex(flat, stepId) <= findIndex(flat, curStepId)

\* Label of a leaf step (activeStep.name, prevStep.prevName).
RECURSIVE labelIn(_, _)
labelIn(steps, id) ==
    IF steps = << >> THEN ""
    ELSE IF Head(steps).id = id THEN Head(steps).label
    ELSE IF Head(steps).hasSteps /\ labelIn(Head(steps).steps, id) # ""
         THEN labelIn(Head(steps).steps, id)
    ELSE labelIn(Tail(steps), id)

stepName(id) == labelIn(stepsOrder(TRUE, "mount-point-mapping"), id)

\* cockpit.format(N_("Error was hit when going back from $0."), name)
critContext(name) == "Error was hit when going back from " \o name \o "."

-----------------------------------------------------------------------------
(* The state as one record, and the primitive updates the handlers make    *)

St == [isFormValid |-> isFormValid, stepNotification |-> stepNotification,
       isInProgress |-> isInProgress, isInstallationProgress |-> isInstallationProgress,
       storageScenarioId |-> storageScenarioId, sessionStorage |-> sessionStorage,
       nextWaitsConfirmation |-> nextWaitsConfirmation,
       quitWaitsConfirmation |-> quitWaitsConfirmation,
       activeStep |-> activeStep, path |-> path, pending |-> pending,
       exitCount |-> exitCount, calls |-> {}, isBootIso |-> isBootIso]

\* The handler's final state s becomes the next state (s is evaluated once, as
\* t); a handler that would put more than MaxPending calls in flight is not run.
Commit(s, ev) ==
    \E t \in {s} :
        /\ BagCardinality(t.pending) <= MaxPending
        /\ isFormValid' = t.isFormValid
        /\ stepNotification' = t.stepNotification
        /\ isInProgress' = t.isInProgress
        /\ isInstallationProgress' = t.isInstallationProgress
        /\ storageScenarioId' = t.storageScenarioId
        /\ sessionStorage' = t.sessionStorage
        /\ nextWaitsConfirmation' = t.nextWaitsConfirmation
        /\ quitWaitsConfirmation' = t.quitWaitsConfirmation
        /\ activeStep' = t.activeStep
        /\ path' = t.path
        /\ pending' = t.pending
        /\ exitCount' = t.exitCount
        /\ calls' = t.calls
        /\ event' = ev
        /\ UNCHANGED << isBootIso, fnVars >>

Ev(op, step, ex) == [op |-> op, step |-> step, ex |-> ex]

called(s, name, arg) == [s EXCEPT !.calls = @ \cup {<< name, arg >>}]

setIsFormValid(s, v) == [s EXCEPT !.isFormValid = v]
setStepNotification(s, v) == [s EXCEPT !.stepNotification = v]
setIsInProgress(s, v) == [s EXCEPT !.isInProgress = v]
setInstallationProgress(s, v) == [s EXCEPT !.isInstallationProgress = v]
setNextWaitsConfirmation(s, v) == [s EXCEPT !.nextWaitsConfirmation = v]
setQuitWaitsConfirmation(s, v) == [s EXCEPT !.quitWaitsConfirmation = v]

\* useState(window.sessionStorage.getItem("storage-scenario-id") || getDefaultScenario().id)
initialStorageScenarioId(stored) ==
    IF stored # Null /\ stored # "" THEN stored ELSE DefaultScenarioId

\* setStorageScenarioId without the sessionStorage.setItem call.
setStorageScenarioId_MemoryOnly(s, scenarioId) ==
    called([s EXCEPT !.storageScenarioId = scenarioId], "sessionStorage.setItem", scenarioId)

\* componentProps.setStorageScenarioId = (scenarioId) => { setItem(...); setStorageScenarioId(...) }
setStorageScenarioId(s, scenarioId) ==
    called([s EXCEPT !.sessionStorage = scenarioId, !.storageScenarioId = scenarioId],
           "sessionStorage.setItem", scenarioId)

\* cockpit.location.go([id])
locationGo(s, id) == called([s EXCEPT !.path = id], "cockpit.location.go", id)

\* onCritFail({ context })
onCritFail(s, context) == called(s, "onCritFail", context)

\* A storage call is started: it stays in flight until its completion is delivered.
\* The record keeps what the completion callbacks close over.
resetPartitioning(s, targetId, prevName) ==
    called([s EXCEPT !.pending = @ (+) SetToBag({[kind |-> "reset", step |-> targetId,
                                                   scenario |-> Null, prevName |-> prevName]})],
           "resetPartitioning", "")

applyStorage(s, stepId) ==
    called([s EXCEPT !.pending = @ (+) SetToBag({[kind |-> "apply", step |-> stepId,
                                                   scenario |-> s.storageScenarioId,
                                                   prevName |-> ""]})],
           "applyStorage", stepId)

-----------------------------------------------------------------------------
(* AnacondaWizard: the step-change handler and the wizard's step movement  *)

flatOf(s) == flattenedStepsIds(s.isBootIso, s.storageScenarioId)

\* goToStep without setIsInProgress(true) before the reset call.
goToStep_NoProgress(s, currentStep, prevStep) ==
    LET s1 == IF prevStep.prevId # currentStep.id THEN setIsFormValid(s, FALSE) ELSE s
    IN  IF prevStep.prevId = "installation-review" /\ currentStep.id # "installation-progress"
        THEN resetPartitioning(s1, currentStep.id, prevStep.prevName)
        ELSE locationGo(s1, currentStep.id)

\* goToStep without the reset of the validation state.
goToStep_KeepsValidity(s, currentStep, prevStep) ==
    IF prevStep.prevId = "installation-review" /\ currentStep.id # "installation-progress"
    THEN resetPartitioning(setIsInProgress(s, TRUE), currentStep.id, prevStep.prevName)
    ELSE locationGo(s, currentStep.id)

\* const goToStep = (currentStep, prevStep) => { ... }
\* The wizard passes prevStep as { prevId, prevName }: id and name of the step left.
goToStep(s, currentStep, prevStep) ==
    LET s1 == IF prevStep.prevId # currentStep.id THEN setIsFormValid(s, FALSE) ELSE s
    IN  IF prevStep.prevId = "installation-review" /\ currentStep.id # "installation-progress"
        THEN resetPartitioning(setIsInProgress(s1, TRUE), currentStep.id, prevStep.prevName)
        ELSE locationGo(s1, currentStep.id)

\* onStepChange={(event, currentStep, prevStep) => goToStep(currentStep, prevStep)}:
\* the wizard makes newId its active step and reports the change.
stepChange(s, newId, fromId) ==
    goToStep([s EXCEPT !.activeStep = newId],
             [id |-> newId, name |-> stepName(newId)],
             [prevId |-> fromId, prevName |-> stepName(fromId)])

\* goToNextStep of the wizard context, as rendered when the step was fromId and
\* the visible steps were flat: the step after fromId, nothing after the last one.
goToNextStep(s, flat, fromId) ==
    LET i == findIndex(flat, fromId)
    IN  IF i >= 0 /\ i + 2 <= Len(flat) THEN stepChange(s, flat[i + 2], fromId) ELSE s

\* goToPrevStep of the wizard context: the step before fromId, nothing before the first.
goToPrevStep(s, flat, fromId) ==
    LET i == findIndex(flat, fromId)
    IN  IF i >= 1 THEN stepChange(s, flat[i], fromId) ELSE s

-----------------------------------------------------------------------------
(* Footer: handlers and render conditions                                   *)

\* onFail that leaves isInProgress set.
onFail_KeepsProgress(s, op, ex) ==
    setStepNotification(s, [step |-> op.step, ex |-> ex])

\* onFail that keys the notification by the step active when the failure arrives.
onFail_CurrentStep(s, op, ex) ==
    setStepNotification(setIsInProgress(s, FALSE), [step |-> s.activeStep, ex |-> ex])

\* onFail: ex => { setIsInProgress(false); setStepNotification({ step: activeStep.id, ...ex }) }
onFail(s, op, ex) ==
    setStepNotification(setIsInProgress(s, FALSE), [step |-> op.step, ex |-> ex])

\* onSuccess that does not clear the notification of an earlier failure.
onSuccess_KeepsNotification(s, op) ==
    setIsInProgress(
        goToNextStep(s, flattenedStepsIds(s.isBootIso, op.scenario), op.step),
        FALSE)

\* onSuccess: () => { goToNextStep(); setIsInProgress(false); setStepNotification() }
onSuccess(s, op) ==
    setStepNotification(
        setIsInProgress(
            goToNextStep(s, flattenedStepsIds(s.isBootIso, op.scenario), op.step),
            FALSE),
        Undefined)

\* onNext that starts the installation from the review step without confirmation.
onNext_NoConfirmation(s, stepId) ==
    LET s0 == setIsFormValid(s, TRUE)
    IN  IF stepId = "disk-encryption"
        THEN applyStorage(setIsInProgress(s0, TRUE), stepId)
        ELSE IF stepId = "installation-review"
        THEN setInstallationProgress(s0, TRUE)
        ELSE IF stepId = "mount-point-mapping"
        THEN applyStorage(setIsInProgress(s0, TRUE), stepId)
        ELSE goToNextStep(s0, flatOf(s0), stepId)

\* const onNext = (activeStep, onNext) => { ... }
onNext(s, stepId) ==
    LET s0 == setIsFormValid(s, TRUE)
    IN  IF stepId = "disk-encryption"
        THEN applyStorage(setIsInProgress(s0, TRUE), stepId)
        ELSE IF stepId = "installation-review"
        THEN setNextWaitsConfirmation(s0, TRUE)
        ELSE IF stepId = "mount-point-mapping"
        THEN applyStorage(setIsInProgress(s0, TRUE), stepId)
        ELSE goToNextStep(s0, flatOf(s0), stepId)

\* const onBack = (activeStep, errorHandler) => { setIsFormValid(true); goToPrevStep() }
onBack(s, stepId) == goToPrevStep(setIsFormValid(s, TRUE), flatOf(s), stepId)

\* onClick of installation-back-btn: the second argument of onBack is evaluated
\* before onBack is called, and it is a call of onCritFail.
backOnClick(s) ==
    onBack(onCritFail(s, critContext(stepName(s.activeStep))), s.activeStep)

\* A quit button that exits at once.
quitOnClick_Exits(s) == called([s EXCEPT !.exitCount = @ + 1], "exitGui", "")

\* onClick of installation-quit-btn
quitOnClick(s) == setQuitWaitsConfirmation(s, TRUE)

\* if (isInProgress) return null; the Footer exists only inside the Wizard.
footerRendered(s) == ~s.isInstallationProgress /\ ~s.isInProgress

isFirstScreen(s) ==
    \/ s.activeStep = "installation-language"
    \/ (s.activeStep = "installation-method" /\ ~s.isBootIso)

\* A Next button that is enabled on an invalid form.
nextDisabled_IgnoresValidity(s) == s.nextWaitsConfirmation

\* isDisabled of installation-next-btn
nextDisabled(s) == ~s.isFormValid \/ s.nextWaitsConfirmation

reviewModalShown(s) ==
    footerRendered(s) /\ s.activeStep = "installation-review" /\ s.nextWaitsConfirmation

quitModalShown(s) == footerRendered(s) /\ s.quitWaitsConfirmation

\* An open Modal takes every click: nothing under it can be activated.
modalOpen(s) == reviewModalShown(s) \/ quitModalShown(s)

-----------------------------------------------------------------------------
(* Collaborators whose code lives in other files                            *)

\* exitGui(): the exit operation ends the installer session.
exitGui(s) == called([s EXCEPT !.exitCount = @ + 1], "exitGui", "")

\* Nothing of the UI runs once the exit operation has been called.
Alive == exitCount = 0

\* ReviewConfigurationConfirmModal, confirm and cancel.
reviewConfirm(s) == setNextWaitsConfirmation(setInstallationProgress(s, TRUE), FALSE)
reviewCancel(s) == setNextWaitsConfirmation(s, FALSE)

-----------------------------------------------------------------------------
(* Initial state and actions                                                *)

\* The function harness is not in use while the wizard runs.
FnOff ==
    /\ fnPc = "off"
    /\ fnSteps = << >>
    /\ fnStepIds = << >>
    /\ fnJump = NoJump

WizardInit ==
    /\ isBootIso \in BOOLEAN
    /\ isFormValid = FALSE
    /\ stepNotification = Undefined
    /\ isInProgress = FALSE
    /\ isInstallationProgress = FALSE
    /\ sessionStorage \in {Null} \cup ScenarioIds
    /\ storageScenarioId = initialStorageScenarioId(sessionStorage)
    /\ nextWaitsConfirmation = FALSE
    /\ quitWaitsConfirmation = FALSE
    /\ path = ""
    /\ activeStep = currentStepId(isBootIso, "")
    /\ pending = EmptyBag
    /\ exitCount = 0
    /\ calls = {}
    /\ event = Ev("init", Null, NoEx)

Init == WizardInit /\ FnOff

WizardShown == Alive /\ ~isInstallationProgress

\* The step shown validates its form and reports the result: setIsFormValid(v).
StepValidation ==
    /\ WizardShown
    /\ \E v \in BOOLEAN :
          Commit(setIsFormValid(St, v), Ev("setIsFormValid", activeStep, NoEx))

\* componentProps.setStorageScenarioId, called by the scenario selector of the
\* installation-method step.
SelectScenario ==
    /\ WizardShown
    /\ ~modalOpen(St)
    /\ activeStep = "installation-method"
    /\ \E scenarioId \in ScenarioIds :
          Commit(setStorageScenarioId(St, scenarioId),
                 Ev("setStorageScenarioId", activeStep, NoEx))

NextClick ==
    /\ Alive
    /\ footerRendered(St)
    /\ ~modalOpen(St)
    /\ ~nextDisabled(St)
    /\ Commit(onNext(St, activeStep), Ev("next", activeStep, NoEx))

BackClick ==
    /\ Alive
    /\ footerRendered(St)
    /\ ~modalOpen(St)
    /\ ~isFirstScreen(St)
    /\ Commit(backOnClick(St), Ev("back", activeStep, NoEx))

\* A click on the nav item of a visible step, enabled by canJumpTo (line 184).
NavClick ==
    /\ WizardShown
    /\ ~modalOpen(St)
    /\ \E i \in 1..Len(flatOf(St)) :
          /\ canJumpToStep(flatOf(St), flatOf(St)[i], currentStepId(isBootIso, path))
          /\ Commit(stepChange(St, flatOf(St)[i], activeStep),
                    Ev("nav", activeStep, NoEx))

QuitClick ==
    /\ Alive
    /\ footerRendered(St)
    /\ ~modalOpen(St)
    /\ Commit(quitOnClick(St), Ev("quit", activeStep, NoEx))

\* installation-quit-confirm-cancel-btn, and onClose of the modal
QuitCancel ==
    /\ Alive
    /\ quitModalShown(St)
    /\ Commit(setQuitWaitsConfirmation(St, FALSE), Ev("quitCancel", activeStep, NoEx))

\* installation-quit-confirm-btn
QuitConfirm ==
    /\ Alive
    /\ quitModalShown(St)
    /\ Commit(exitGui(St), Ev("quitConfirm", activeStep, NoEx))

ReviewConfirm ==
    /\ Alive
    /\ reviewModalShown(St)
    /\ Commit(reviewConfirm(St), Ev("reviewConfirm", activeStep, NoEx))

ReviewCancel ==
    /\ Alive
    /\ reviewModalShown(St)
    /\ Commit(reviewCancel(St), Ev("reviewCancel", activeStep, NoEx))

\* resetPartitioning().then(() => cockpit.location.go([currentStep.id]), ...)
\*                    .always(() => setIsInProgress(false))
onResetSuccess(s, op) == setIsInProgress(locationGo(s, op.step), FALSE)

\* A failure continuation that navigates as the success continuation does.
onResetFail_Navigates(s, op) ==
    setIsInProgress(onCritFail(locationGo(s, op.step), critContext(op.prevName)), FALSE)

\* resetPartitioning().then(..., () => onCritFail({ context: ... prevStep.prevName }))
\*                    .always(() => setIsInProgress(false))
onResetFail(s, op) == setIsInProgress(onCritFail(s, critContext(op.prevName)), FALSE)

\* The state in which a completion callback runs: the call is no longer in flight.
Taken(op) == [St EXCEPT !.pending = @ (-) SetToBag({op})]

ApplySuccess ==
    /\ Alive
    /\ \E op \in BagToSet(pending) :
          /\ op.kind = "apply"
          /\ Commit(onSuccess(Taken(op), op), Ev("applySuccess", op.step, NoEx))

ApplyFail ==
    /\ Alive
    /\ \E op \in BagToSet(pending), ex \in Errors :
          /\ op.kind = "apply"
          /\ Commit(onFail(Taken(op), op, ex), Ev("applyFail", op.step, ex))

ResetSuccess ==
    /\ Alive
    /\ \E op \in BagToSet(pending) :
          /\ op.kind = "reset"
          /\ Commit(onResetSuccess(Taken(op), op), Ev("resetSuccess", op.step, NoEx))

ResetFail ==
    /\ Alive
    /\ \E op \in BagToSet(pending) :
          /\ op.kind = "reset"
          /\ Commit(onResetFail(Taken(op), op), Ev("resetFail", op.step, NoEx))

Next ==
    \/ StepValidation
    \/ SelectScenario
    \/ NextClick
    \/ BackClick
    \/ NavClick
    \/ QuitClick
    \/ QuitCancel
    \/ QuitConfirm
    \/ ReviewConfirm
    \/ ReviewCancel
    \/ ApplySuccess
    \/ ApplyFail
    \/ ResetSuccess
    \/ ResetFail

Spec == Init /\ [][Next]_vars

\* Every storage call that was started reports success or failure in the end.
\* Deliver is a step that takes a call out of pending: the steps of ApplySuccess,
\* ApplyFail, ResetSuccess and ResetFail, and no others, are Deliver steps, and
\* one of them is possible exactly when a call is in flight and the UI is alive.
Deliver == Alive /\ pending' \in SubBag(pending) /\ pending' # pending

FairSpec == Init /\ [][Next]_vars /\ WF_pending(Deliver)

-----------------------------------------------------------------------------
(* getFlattenedStepsIds and canJumpToStep applied to arbitrary step trees   *)

\* Most top-level steps of a tree given to getFlattenedStepsIds.
MaxTop == 3

\* Ids of the leaf steps and of the groups a tree is built from; ids are unique
\* in a tree (StepDescriptor.id).
StepIds == {"s1", "s2", "s3"}
GroupIds == {"g1", "g2"}

idsIn(steps) ==
    {steps[i].id : i \in 1..Len(steps)}
    \cup UNION {{steps[i].steps[j].id : j \in 1..Len(steps[i].steps)} : i \in 1..Len(steps)}

\* A step descriptor that carries isHidden, as a top-level step or as a child.
Step(id, hidden) ==
    [id |-> id, label |-> id, hasSteps |-> FALSE, steps |-> << >>, isHidden |-> hidden]

FnInit ==
    /\ WizardInit
    /\ isBootIso = FALSE
    /\ sessionStorage = Null
    /\ fnPc = "build"
    /\ fnSteps = << >>
    /\ fnStepIds = << >>
    /\ fnJump = NoJump

\* A top-level step without children is appended to the tree.
FnAddStep ==
    /\ fnPc = "build"
    /\ Len(fnSteps) < MaxTop
    /\ \E id \in StepIds \ idsIn(fnSteps), hidden \in BOOLEAN :
          fnSteps' = Append(fnSteps, Step(id, hidden))
    /\ UNCHANGED << wizardVars, fnPc, fnStepIds, fnJump >>

\* A group (a step with a steps array, empty so far) is appended to the tree.
FnAddGroup ==
    /\ fnPc = "build"
    /\ Len(fnSteps) < MaxTop
    /\ \E id \in GroupIds \ idsIn(fnSteps) :
          fnSteps' = Append(fnSteps, [id |-> id, label |-> id, hasSteps |-> TRUE,
                                      steps |-> << >>, isHidden |-> FALSE])
    /\ UNCHANGED << wizardVars, fnPc, fnStepIds, fnJump >>

\* A child is appended to the last group of the tree.
FnAddChild ==
    /\ fnPc = "build"
    /\ fnSteps # << >>
    /\ fnSteps[Len(fnSteps)].hasSteps
    /\ \E id \in StepIds \ idsIn(fnSteps), hidden \in BOOLEAN :
          fnSteps' = [fnSteps EXCEPT ![Len(fnSteps)].steps = Append(@, Step(id, hidden))]
    /\ UNCHANGED << wizardVars, fnPc, fnStepIds, fnJump >>

\* const flattenedStepsIds = getFlattenedStepsIds(stepsOrder)
FnFlatten ==
    /\ fnPc = "build"
    /\ fnStepIds' = getFlattenedStepsIds(fnSteps)
    /\ fnPc' = "flattened"
    /\ UNCHANGED << wizardVars, fnSteps, fnJump >>

\* canJumpToStep(target, current) over the flattened sequence, for ids in and
\* out of the sequence.
FnCanJump ==
    /\ fnPc = "flattened"
    /\ \E target \in StepIds \cup GroupIds, current \in StepIds \cup GroupIds :
          fnJump' = [target |-> target, current |-> current,
                     result |-> canJumpToStep(fnStepIds, target, current)]
    /\ fnPc' = "jumped"
    /\ UNCHANGED << wizardVars, fnSteps, fnStepIds >>

FnNext ==
    \/ FnAddStep
    \/ FnAddGroup
    \/ FnAddChild
    \/ FnFlatten
    \/ FnCanJump

FnSpec == FnInit /\ [][FnNext]_vars

-----------------------------------------------------------------------------
(* Properties                                                               *)

ApplySteps == {"disk-encryption", "mount-point-mapping"}
ReviewStep == "installation-review"

didCall(name) == \E c \in calls : c[1] = name
ApplyCall == << "applyStorage", activeStep >>
ResetCall == << "resetPartitioning", "" >>

\* C1: in every reachable state at most one storage call (applyStorage or
\* resetPartitioning) is outstanding.
C1_SingleFlight == BagCardinality(pending) <= 1

\* C2: while isInProgress is true no navigation is initiated by the user: no
\* Next, Back or nav-item click runs, so goToStep is not entered and the
\* location is not changed by a user action.
C2_NoNavigationInProgress ==
    [][isInProgress => event'.op \notin {"next", "back", "nav"}]_vars

\* C3: whenever isInProgress is true it eventually becomes false again, given
\* that every started storage call eventually reports success or failure.
C3_ProgressEnds == isInProgress ~> ~isInProgress

C3_Witness == event.op = "applyFail" /\ ~isInProgress /\ pending = EmptyBag

\* C4: a Next click on disk-encryption or mount-point-mapping starts an
\* applyStorage call for that step; when the call fails with error E,
\* isInProgress is false, stepNotification is {step: <step of the click>, ...E},
\* and the active step and the location are what they were before the failure.
C4_ApplyFailure ==
    [][ /\ (event'.op = "next" /\ activeStep \in ApplySteps) =>
              \E op \in BagToSet(pending') :
                  /\ op.kind = "apply" /\ op.step = activeStep
                  /\ pending' = pending (+) SetToBag({op})
        /\ (event'.op = "applyFail") =>
              /\ isInProgress' = FALSE
              /\ event'.step \in ApplySteps
              /\ stepNotification' = [step |-> event'.step, ex |-> event'.ex]
              /\ activeStep' = activeStep
              /\ path' = path ]_vars

C4_Witness ==
    /\ event.op = "applyFail"
    /\ stepNotification = [step |-> "mount-point-mapping", ex |-> "e2"]
    /\ ~isInProgress
    /\ activeStep # "mount-point-mapping"

\* C5: a Next click on disk-encryption or mount-point-mapping sets isInProgress;
\* when the applyStorage call succeeds isInProgress is false, stepNotification
\* is undefined and the active step is the one right after the step of the
\* click in the flattened sequence that holds that step.
C5_ApplySuccess ==
    [][ /\ (event'.op = "next" /\ activeStep \in ApplySteps) =>
              (isInProgress' = TRUE /\ ApplyCall \in calls')
        /\ (event'.op = "applySuccess") =>
              /\ isInProgress' = FALSE
              /\ stepNotification' = Undefined
              /\ \E sc \in ScenarioIds :
                    LET flat == flattenedStepsIds(isBootIso, sc)
                    IN  /\ findIndex(flat, event'.step) >= 0
                        /\ findIndex(flat, activeStep') = findIndex(flat, event'.step) + 1 ]_vars

C5_Witness ==
    /\ event.op = "applySuccess"
    /\ event.step = "disk-encryption"
    /\ activeStep = ReviewStep
    /\ ~isInProgress
    /\ stepNotification = Undefined

\* C6: Back on installation-review sets isInProgress and calls
\* resetPartitioning for the step before the review step; when the call
\* succeeds the location becomes that step and isInProgress is false; when it
\* fails onCritFail is called with a context naming the review step and
\* isInProgress is false.
C6_BackFromReview ==
    [][ /\ (event'.op = "back" /\ activeStep = ReviewStep) =>
              /\ isInProgress' = TRUE
              /\ ResetCall \in calls'
              /\ LET flat == flatOf(St)
                      prev == flat[findIndex(flat, ReviewStep)]
                      op == [kind |-> "reset", step |-> prev, scenario |-> Null,
                             prevName |-> "Review and install"]
                  IN  activeStep' = prev /\ pending' = pending (+) SetToBag({op})
        /\ (event'.op = "resetSuccess") =>
              (path' = event'.step /\ isInProgress' = FALSE)
        /\ (event'.op = "resetFail") =>
              /\ << "onCritFail", "Error was hit when going back from Review and install." >>
                    \in calls'
              /\ isInProgress' = FALSE ]_vars

C6_Witness ==
    /\ event.op = "back"
    /\ event.step = ReviewStep
    /\ isInProgress
    /\ ResetCall \in calls

C8_ReviewConfirmation ==
    [][ /\ (event'.op = "next" /\ activeStep = ReviewStep) =>
              /\ nextWaitsConfirmation' = TRUE
              /\ activeStep' = activeStep /\ path' = path
              /\ isInstallationProgress' = isInstallationProgress
        /\ (isInstallationProgress' /\ ~isInstallationProgress) =>
              /\ event'.op = "reviewConfirm"
              /\ activeStep = ReviewStep /\ nextWaitsConfirmation /\ ~isInProgress
        /\ (event'.op = "reviewCancel") =>
              /\ nextWaitsConfirmation' = FALSE
              /\ activeStep' = activeStep
              /\ isInstallationProgress' = isInstallationProgress ]_vars

C8_Witness == event.op = "reviewConfirm" /\ isInstallationProgress /\ ~nextWaitsConfirmation

\* C9: onNext never runs, and so no applyStorage call starts, in a state where
\* isFormValid is false or nextWaitsConfirmation is true.
C9_NextOnlyWhenEnabled ==
    [][ (event'.op = "next" \/ (\E c \in calls' : c[1] = "applyStorage")) =>
            (isFormValid /\ ~nextWaitsConfirmation) ]_vars

C9_Witness == event.op = "next" /\ didCall("applyStorage") /\ isInProgress

occurs(seq, id) == \E i \in 1..Len(seq) : seq[i] = id

\* Scenario ids beyond the ones the model's selector stores.
OtherScenarioIds == {"use-free-space", "", Null}

\* C11: for every storage scenario id, and so in every reachable state, exactly
\* one of mount-point-mapping and disk-encryption is in the flattened step
\* sequence: mount-point-mapping when the scenario id is "mount-point-mapping",
\* disk-encryption for any other id.
C11_ExactlyOneDiskStep ==
    /\ occurs(flatOf(St), "mount-point-mapping") <=> storageScenarioId = "mount-point-mapping"
    /\ occurs(flatOf(St), "disk-encryption") <=> storageScenarioId # "mount-point-mapping"
    /\ \A sc \in ScenarioIds \cup OtherScenarioIds :
          LET flat == flattenedStepsIds(isBootIso, sc)
          IN  /\ occurs(flat, "mount-point-mapping") <=> sc = "mount-point-mapping"
              /\ occurs(flat, "disk-encryption") <=> sc # "mount-point-mapping"

C11_Witness ==
    /\ event.op = "setStorageScenarioId"
    /\ storageScenarioId = "mount-point-mapping"
    /\ occurs(flatOf(St), "mount-point-mapping")
    /\ ~occurs(flatOf(St), "disk-encryption")

noDuplicates(seq) == \A i, j \in 1..Len(seq) : seq[i] = seq[j] => i = j

\* Ids of the top-level steps without children, and of the children of groups,
\* whose isHidden is true.
hiddenTopIds(steps) ==
    {steps[i].id : i \in {k \in 1..Len(steps) : ~steps[k].hasSteps /\ steps[k].isHidden}}
hiddenChildIds(steps) ==
    UNION {{steps[i].steps[j].id : j \in {k \in 1..Len(steps[i].steps) : steps[i].steps[k].isHidden}}
           : i \in {k \in 1..Len(steps) : steps[k].hasSteps}}
topIds(steps) == {steps[i].id : i \in {k \in 1..Len(steps) : ~steps[k].hasSteps}}

\* C12 as stated: for every step tree the sequence getFlattenedStepsIds returns
\* has no duplicate id and holds no id of a leaf step whose isHidden is true.
C12_NoDuplicateNoHiddenLeaf ==
    (fnPc \in {"flattened", "jumped"}) =>
        /\ noDuplicates(fnStepIds)
        /\ \A id \in hiddenTopIds(fnSteps) \cup hiddenChildIds(fnSteps) : ~occurs(fnStepIds, id)

\* C12 amended: for every step tree (ids unique) the sequence
\* getFlattenedStepsIds returns has no duplicate id and holds no id of a child
\* of a group whose isHidden is true; a top-level step without children is in
\* the sequence whatever its isHidden is.
C12_NoDuplicateNoHiddenChild ==
    (fnPc \in {"flattened", "jumped"}) =>
        /\ noDuplicates(fnStepIds)
        /\ \A id \in hiddenChildIds(fnSteps) : ~occurs(fnStepIds, id)
        /\ \A id \in topIds(fnSteps) : occurs(fnStepIds, id)

C12_Witness ==
    /\ fnPc = "flattened"
    /\ \E id \in hiddenTopIds(fnSteps) : occurs(fnStepIds, id)
    /\ \E id \in hiddenChildIds(fnSteps) : ~occurs(fnStepIds, id)
    /\ Len(fnStepIds) >= 2

C14_ScenarioSurvivesReload ==
    /\ [](initialStorageScenarioId(sessionStorage) = storageScenarioId)
    /\ [](sessionStorage = Null => storageScenarioId = DefaultScenarioId)
    /\ [](sessionStorage # Null => sessionStorage = storageScenarioId)
    /\ [][ /\ (event'.op = "setStorageScenarioId") =>
                 \E id \in ScenarioIds :
                     /\ << "sessionStorage.setItem", id >> \in calls'
                     /\ sessionStorage' = id /\ storageScenarioId' = id
           /\ (sessionStorage' # sessionStorage \/ storageScenarioId' # storageScenarioId) =>
                 event'.op = "setStorageScenarioId" ]_vars

C14_Witness ==
    /\ event.op = "setStorageScenarioId"
    /\ sessionStorage = "mount-point-mapping"
    /\ storageScenarioId = "mount-point-mapping"
    /\ initialStorageScenarioId(sessionStorage) # DefaultScenarioId

\* C15 as stated: goToStep resets isFormValid to false only on a Back or nav
\* jump; on a Next advance to the following step it does not, so isFormValid is
\* still the true that onNext set, while after Back or a nav jump to another
\* step it is false.
C15_ResetOnlyOnBackOrJump ==
    [][ /\ (event'.op = "next" /\ activeStep' # activeStep) => isFormValid' = TRUE
        /\ (event'.op \in {"back", "nav"} /\ activeStep' # activeStep) =>
              isFormValid' = FALSE ]_vars

\* C15 amended: goToStep resets isFormValid to false whenever the step left is
\* not the new step: after a Next advance (made by the click or by the success
\* of applyStorage), after Back and after a nav jump to another step
\* isFormValid is false; a click on the nav item of the step shown leaves it
\* as it was, and a Next click that does not change the step leaves it true.
C15_ResetOnEveryStepChange ==
    [][ /\ (event'.op \in {"next", "back", "nav"} /\ activeStep' # activeStep) =>
              isFormValid' = FALSE
        /\ (event'.op = "applySuccess") =>
              (activeStep' # event'.step /\ isFormValid' = FALSE)
        /\ (event'.op = "nav" /\ activeStep' = activeStep) => isFormValid' = isFormValid
        /\ (event'.op = "next" /\ activeStep' = activeStep) => isFormValid' = TRUE ]_vars

C15_Witness ==
    /\ event.op = "next"
    /\ event.step = "installation-method"
    /\ activeStep = "disk-encryption"
    /\ ~isFormValid

\* C16: after every change of the active step both nextWaitsConfirmation and
\* quitWaitsConfirmation are false.
C16_FlagsClearedOnStepChange ==
    [][activeStep' # activeStep =>
          (~nextWaitsConfirmation' /\ ~quitWaitsConfirmation')]_vars

\* C17 as stated: when the current step id is not in the flattened sequence
\* (index -1), canJumpTo is true for any target step id.
C17_AbsentCurrentAllowsAll ==
    (fnPc = "jumped" /\ ~occurs(fnStepIds, fnJump.current)) => fnJump.result = TRUE

\* C17 amended: when the current step id is not in the flattened sequence
\* (index -1), canJumpTo is false for every target in the sequence and true
\* only for a target that is not in the sequence either.
C17_AbsentCurrentAllowsAbsentOnly ==
    (fnPc = "jumped" /\ ~occurs(fnStepIds, fnJump.current)) =>
        (fnJump.result <=> ~occurs(fnStepIds, fnJump.target))

C17_Witness ==
    /\ fnPc = "jumped"
    /\ ~occurs(fnStepIds, fnJump.current)
    /\ occurs(fnStepIds, fnJump.target)
    /\ fnJump.result = FALSE

\* C18: onCritFail is called only when a resetPartitioning call, made on
\* leaving the review step, has failed: a click on Back, Next or Quit and the
\* completion of applyStorage never call it.
C18_CritFailOnlyOnResetFailure ==
    [][didCall("onCritFail")' => event'.op = "resetFail"]_vars

\* C19: whenever isInProgress is false and the wizard view is shown, the step
\* id of the location is the wizard's active step (the step last given to
\* goToStep as the new step).
C19_LocationIsActiveStep ==
    (~isInProgress /\ ~isInstallationProgress) =>
        currentStepId(isBootIso, path) = activeStep

\* C20: the active step becomes installation-review only by the success of an
\* applyStorage call that a Next click on the disk-configuration step shown
\* started; no Next, Back or nav-item click makes installation-review the
\* active step.
C20_ReviewOnlyAfterApply ==
    [][(activeStep' = ReviewStep /\ activeStep # ReviewStep) =>
          (event'.op = "applySuccess" /\ event'.step \in ApplySteps)]_vars

====
